---- MODULE Spec2Model ----
(***************************************************************************)
(* Model of modules/settings.py (Excelladin Reloaded): the path helpers    *)
(* maak_relatief_pad / maak_absoluut_pad / zorg_voor_directory and the     *)
(* class Instellingen, a case-insensitive wrapper around                   *)
(* configparser.ConfigParser() that persists to an INI file.               *)
(*                                                                         *)
(* Strings are sequences of one-character strings, so that str.lower(),    *)
(* str.strip(), '%'-interpolation and path splitting are computed as the   *)
(* library computes them.  Python values are tagged records (PStr, PInt,   *)
(* PBool, PNone); an operation's outcome is a record with a `raised' flag  *)
(* so that try/except blocks are modelled by Catch.                        *)
(***************************************************************************)
EXTENDS Integers, Sequences, FiniteSets, TLC

VARIABLES
    pc,        \* "nieuw" before Instellingen(...) ran, "klaar" afterwards
    config,    \* self.config: ordered sections, each with ordered options
    bestand,   \* the backing file self.configBestand on disk
    bestand0,  \* the backing file as the constructor found it
    mappen,    \* directories that exist on disk
    last,      \* the last public call: its arguments, result and escape flag
    stappen    \* number of public calls made so far

vars == <<pc, config, bestand, bestand0, mappen, last, stappen>>

(***************************************************************************)
(* Bounds                                                                  *)
(***************************************************************************)
MaxStappen == 2

(***************************************************************************)
(* Strings                                                                 *)
(***************************************************************************)
LowerTable ==
    [A |-> "a", B |-> "b", C |-> "c", D |-> "d", E |-> "e", F |-> "f",
     G |-> "g", H |-> "h", I |-> "i", J |-> "j", K |-> "k", L |-> "l",
     M |-> "m", N |-> "n", O |-> "o", P |-> "p", Q |-> "q", R |-> "r",
     S |-> "s", T |-> "t", U |-> "u", V |-> "v", W |-> "w", X |-> "x",
     Y |-> "y", Z |-> "z"]

LowerChar(c) == IF c \in DOMAIN LowerTable THEN LowerTable[c] ELSE c

\* str.lower()
Lower(s) == [i \in 1..Len(s) |-> LowerChar(s[i])]

\* '%' in s, and friends
Contains(s, c) == \E i \in 1..Len(s) : s[i] = c

\* s.find(c) counted from position `from'; 0 when absent
FindFrom(s, c, from) ==
    IF \E i \in from..Len(s) : s[i] = c
    THEN CHOOSE i \in from..Len(s) : s[i] = c /\ \A j \in from..(i-1) : s[j] # c
    ELSE 0

Drop(s, k) == SubSeq(s, k + 1, Len(s))

RECURSIVE LStrip(_)
LStrip(s) == IF s # <<>> /\ s[1] = " " THEN LStrip(Tail(s)) ELSE s

RECURSIVE RStrip(_)
RStrip(s) == IF s # <<>> /\ s[Len(s)] = " " THEN RStrip(SubSeq(s, 1, Len(s) - 1)) ELSE s

\* str.strip()
Strip(s) == RStrip(LStrip(s))

\* Decimal digits of a natural number
DigitChar(d) == <<"0", "1", "2", "3", "4", "5", "6", "7", "8", "9">>[d + 1]

RECURSIVE Digits(_)
Digits(n) == IF n < 10 THEN <<DigitChar(n)>> ELSE Digits(n \div 10) \o <<DigitChar(n % 10)>>

(***************************************************************************)
(* Python values                                                           *)
(***************************************************************************)
PStr(s)  == [t |-> "str",  s |-> s,    n |-> 0]
PInt(n)  == [t |-> "int",  s |-> <<>>, n |-> n]
PBool(b) == [t |-> "bool", s |-> <<>>, n |-> IF b THEN 1 ELSE 0]
PNone    == [t |-> "none", s |-> <<>>, n |-> 0]

TrueStr  == <<"T", "r", "u", "e">>
FalseStr == <<"F", "a", "l", "s", "e">>
NoneStr  == <<"N", "o", "n", "e">>

\* str(value)
Str(v) ==
    CASE v.t = "str"  -> v.s
      [] v.t = "int"  -> Digits(v.n)
      [] v.t = "bool" -> IF v.n = 1 THEN TrueStr ELSE FalseStr
      [] v.t = "none" -> NoneStr

\* truth value of `if pad:'
Truthy(v) ==
    CASE v.t = "str"  -> v.s # <<>>
      [] v.t = "int"  -> v.n # 0
      [] v.t = "bool" -> v.n = 1
      [] v.t = "none" -> FALSE

\* Outcome of an expression: a value, or an exception on its way up
Ok(v)      == [ret |-> v, raised |-> FALSE]
Raise      == [ret |-> PNone, raised |-> TRUE]
\* try: ... except Exception: return fallback
Catch(r, fallback) == IF r.raised THEN Ok(fallback) ELSE r

(***************************************************************************)
(* os.path on POSIX                                                        *)
(***************************************************************************)
\* os.getcwd()
werkdir == <<"/", "w">>

RECURSIVE Split(_)
\* s.split('/')
Split(s) ==
    LET p == FindFrom(s, "/", 1)
    IN  IF p = 0 THEN <<s>> ELSE <<SubSeq(s, 1, p - 1)>> \o Split(Drop(s, p))

RECURSIVE Join(_)
\* '/'.join(parts)
Join(parts) ==
    IF parts = <<>> THEN <<>>
    ELSE IF Len(parts) = 1 THEN parts[1]
    ELSE parts[1] \o <<"/">> \o Join(Tail(parts))

IsAbs(s) == s # <<>> /\ s[1] = "/"

DotDot == <<".", ".">>

RECURSIVE NormParts(_, _, _)
\* the component loop of posixpath.normpath
NormParts(comps, acc, abs) ==
    IF comps = <<>> THEN acc
    ELSE LET c == comps[1]
         IN  IF c = <<>> \/ c = <<".">> THEN NormParts(Tail(comps), acc, abs)
             ELSE IF c # DotDot \/ (~abs /\ acc = <<>>)
                       \/ (acc # <<>> /\ acc[Len(acc)] = DotDot)
                  THEN NormParts(Tail(comps), Append(acc, c), abs)
             ELSE IF acc # <<>>
                  THEN NormParts(Tail(comps), SubSeq(acc, 1, Len(acc) - 1), abs)
             ELSE NormParts(Tail(comps), acc, abs)

\* posixpath.normpath
NormPath(s) ==
    IF s = <<>> THEN <<".">>
    ELSE LET abs   == IsAbs(s)
             parts == NormParts(Split(s), <<>>, abs)
             body  == Join(parts)
         IN  IF abs THEN <<"/">> \o body
             ELSE IF body = <<>> THEN <<".">> ELSE body

\* posixpath.abspath
AbsPath(s) == IF IsAbs(s) THEN NormPath(s) ELSE NormPath(werkdir \o <<"/">> \o s)

NonEmpty(parts) == SelectSeq(parts, LAMBDA c : c # <<>>)

CommonLen(a, b) ==
    LET m == IF Len(a) < Len(b) THEN Len(a) ELSE Len(b)
    IN  IF \A i \in 1..m : a[i] = b[i] THEN m
        ELSE (CHOOSE i \in 1..m : a[i] # b[i] /\ \A j \in 1..(i-1) : a[j] = b[j]) - 1

\* posixpath.relpath(path, start); raises ValueError on an empty path
RelPath(s, start) ==
    IF s = <<>> THEN Raise
    ELSE LET sl  == NonEmpty(Split(AbsPath(start)))
             pl  == NonEmpty(Split(AbsPath(s)))
             i   == CommonLen(sl, pl)
             rel == [k \in 1..(Len(sl) - i) |-> DotDot] \o Drop(pl, i)
         IN  IF rel = <<>> THEN Ok(PStr(<<".">>)) ELSE Ok(PStr(Join(rel)))

\* os.path.isabs(pad): TypeError unless pad is a str
OsIsAbs(pad) == IF pad.t # "str" THEN Raise ELSE Ok(PBool(IsAbs(pad.s)))

\* lines 9-31
maak_relatief_pad(pad) ==
    LET body ==
          LET a == OsIsAbs(pad)
          IN  IF a.raised THEN Raise
              ELSE IF a.ret.n = 0 THEN Ok(pad)
              ELSE RelPath(pad.s, werkdir)
    IN  Catch(body, pad)

\* lines 33-54
maak_absoluut_pad(pad) ==
    LET body ==
          LET a == OsIsAbs(pad)
          IN  IF a.raised THEN Raise
              ELSE IF a.ret.n = 1 THEN Ok(pad)
              ELSE Ok(PStr(AbsPath(pad.s)))
    IN  Catch(body, pad)

\* every ancestor directory of an absolute path, the path itself included
Ancestors(s) ==
    LET pl == NonEmpty(Split(s))
    IN  { <<"/">> \o Join(SubSeq(pl, 1, k)) : k \in 1..Len(pl) }

(***************************************************************************)
(* configparser.ConfigParser(): strict, optionxform = str.lower,           *)
(* BasicInterpolation, default section "DEFAULT"                           *)
(***************************************************************************)
DEFAULTSECT == <<"D", "E", "F", "A", "U", "L", "T">>

MAX_INTERPOLATION_DEPTH == 10

NoConfig == <<>>

\* ConfigParser.optionxform
OptionXform(o) == Lower(o)

\* ConfigParser.sections()
Sections(cfg) == [i \in 1..Len(cfg) |-> cfg[i].naam]

\* ConfigParser.has_section(s)
HasSection(cfg, s) == \E i \in 1..Len(cfg) : cfg[i].naam = s

SectionIndex(cfg, s) == CHOOSE i \in 1..Len(cfg) : cfg[i].naam = s

OptionIndex(opties, key) ==
    IF \E j \in 1..Len(opties) : opties[j].naam = key
    THEN CHOOSE j \in 1..Len(opties) : opties[j].naam = key
    ELSE 0

\* ConfigParser.options(s) for a section that exists (no defaults are loaded)
Options(cfg, s) ==
    LET o == cfg[SectionIndex(cfg, s)].opties
    IN  [j \in 1..Len(o) |-> o[j].naam]

\* ConfigParser.add_section(s): ValueError for the default section,
\* DuplicateSectionError for an existing one
AddSection(cfg, s) ==
    IF s = DEFAULTSECT \/ HasSection(cfg, s)
    THEN [cfg |-> cfg, raised |-> TRUE]
    ELSE [cfg |-> Append(cfg, [naam |-> s, opties |-> <<>>]), raised |-> FALSE]

RECURSIVE RemovePctPct(_)
\* value.replace('%%', '')
RemovePctPct(s) ==
    IF Len(s) < 2 THEN s
    ELSE IF s[1] = "%" /\ s[2] = "%" THEN RemovePctPct(Drop(s, 2))
    ELSE <<s[1]>> \o RemovePctPct(Tail(s))

\* end of a match of _KEYCRE = %\(([^)]+)\)s at the start of s; 0 when none
KeyMatchEnd(s) ==
    IF Len(s) >= 5 /\ s[1] = "%" /\ s[2] = "("
    THEN LET j == FindFrom(s, ")", 3)
         IN  IF j >= 4 /\ j + 1 <= Len(s) /\ s[j + 1] = "s" THEN j + 1 ELSE 0
    ELSE 0

RECURSIVE RemoveKeys(_)
\* _KEYCRE.sub('', value)
RemoveKeys(s) ==
    IF s = <<>> THEN s
    ELSE LET m == KeyMatchEnd(s)
         IN  IF m > 0 THEN RemoveKeys(Drop(s, m))
             ELSE <<s[1]>> \o RemoveKeys(Tail(s))

\* BasicInterpolation.before_set accepts the value
ValidValue(v) == ~Contains(RemoveKeys(RemovePctPct(v)), "%")

SetOption(opties, key, v) ==
    LET j == OptionIndex(opties, key)
        o == [naam |-> key, waarde |-> v, lijst |-> FALSE]
    IN  IF j = 0 THEN Append(opties, o) ELSE [opties EXCEPT ![j] = o]

\* ConfigParser.set(s, o, v) for str o and v: ValueError on a bad '%',
\* NoSectionError on a missing section
CpSet(cfg, s, o, v) ==
    IF v # <<>> /\ ~ValidValue(v) THEN [cfg |-> cfg, raised |-> TRUE]
    ELSE IF ~HasSection(cfg, s) THEN [cfg |-> cfg, raised |-> TRUE]
    ELSE LET i == SectionIndex(cfg, s)
         IN  [cfg |-> [cfg EXCEPT ![i].opties = SetOption(@, OptionXform(o), v)],
              raised |-> FALSE]

IOk(s)  == [s |-> s, raised |-> FALSE]
IRaise  == [s |-> <<>>, raised |-> TRUE]
IThen(a, b) == IF a.raised \/ b.raised THEN IRaise ELSE IOk(a.s \o b.s)

RECURSIVE InterpolateSome(_, _, _)
RECURSIVE InterpolateLoop(_, _, _)
\* BasicInterpolation._interpolate_some: the depth check on entry
InterpolateSome(rest, map, depth) ==
    IF depth > MAX_INTERPOLATION_DEPTH THEN IRaise
    ELSE InterpolateLoop(rest, map, depth)

\* BasicInterpolation._interpolate_some: the `while rest' loop
InterpolateLoop(rest, map, depth) ==
    IF rest = <<>> THEN IOk(<<>>)
    ELSE LET p == FindFrom(rest, "%", 1)
         IN  IF p = 0 THEN IOk(rest)
             ELSE IF p > 1
                  THEN IThen(IOk(SubSeq(rest, 1, p - 1)),
                             InterpolateLoop(Drop(rest, p - 1), map, depth))
             ELSE IF Len(rest) >= 2 /\ rest[2] = "%"
                  THEN IThen(IOk(<<"%">>), InterpolateLoop(Drop(rest, 2), map, depth))
             ELSE IF Len(rest) >= 2 /\ rest[2] = "("
                  THEN LET m == KeyMatchEnd(rest)
                       IN  IF m = 0 THEN IRaise
                           ELSE LET var == OptionXform(SubSeq(rest, 3, m - 2))
                                    j   == OptionIndex(map, var)
                                IN  IF j = 0 \/ map[j].lijst THEN IRaise
                                    ELSE LET v == map[j].waarde
                                             inner == IF Contains(v, "%")
                                                      THEN InterpolateSome(v, map, depth + 1)
                                                      ELSE IOk(v)
                                         IN  IF inner.raised THEN IRaise
                                             ELSE IThen(inner,
                                                        InterpolateLoop(Drop(rest, m), map, depth))
             ELSE IRaise

\* ConfigParser.get(s, o): NoSectionError, NoOptionError, interpolation
\* errors; a value left as an unjoined list by an aborted read has no find()
CpGet(cfg, s, o) ==
    IF ~HasSection(cfg, s) THEN Raise
    ELSE LET opties == cfg[SectionIndex(cfg, s)].opties
             j      == OptionIndex(opties, OptionXform(o))
         IN  IF j = 0 \/ opties[j].lijst THEN Raise
             ELSE LET r == InterpolateSome(opties[j].waarde, opties, 1)
                  IN  IF r.raised THEN Raise ELSE Ok(PStr(r.s))

(***************************************************************************)
(* The backing file: a sequence of lines, each a section header, an        *)
(* option line `naam = waarde' or a line that is neither                   *)
(***************************************************************************)
Kop(naam)           == [soort |-> "kop",    naam |-> naam, waarde |-> <<>>]
OptieRegel(naam, w) == [soort |-> "optie",  naam |-> naam, waarde |-> w]
Rommel              == [soort |-> "rommel", naam |-> <<>>, waarde |-> <<>>]

\* str(['v'])
ListRepr(v) == <<"[", "'">> \o v \o <<"'", "]">>

RECURSIVE WriteSections(_)
\* ConfigParser.write(fp)
WriteSections(cfg) ==
    IF cfg = <<>> THEN <<>>
    ELSE LET o == cfg[1].opties
         IN  <<Kop(cfg[1].naam)>>
             \o [j \in 1..Len(o) |->
                   OptieRegel(o[j].naam,
                              IF o[j].lijst THEN ListRepr(o[j].waarde) ELSE o[j].waarde)]
             \o WriteSections(Tail(cfg))

ParseOption(opties, key, v) ==
    LET j == OptionIndex(opties, key)
        o == [naam |-> key, waarde |-> v, lijst |-> TRUE]
    IN  IF j = 0 THEN Append(opties, o) ELSE [opties EXCEPT ![j] = o]

RECURSIVE ReadLines(_, _, _, _, _)
\* RawConfigParser._read: DuplicateSectionError, DuplicateOptionError and
\* MissingSectionHeaderError abort at once (direct), a ParsingError is
\* collected and raised after the last line
ReadLines(regels, cfg, cur, added, fout) ==
    IF regels = <<>> THEN [cfg |-> cfg, raised |-> fout, direct |-> FALSE]
    ELSE LET r == regels[1]
             abort == [cfg |-> cfg, raised |-> TRUE, direct |-> TRUE]
         IN  CASE r.soort = "kop" ->
                    IF HasSection(cfg, r.naam)
                    THEN IF <<r.naam>> \in added THEN abort
                         ELSE ReadLines(Tail(regels), cfg, SectionIndex(cfg, r.naam),
                                        added \cup {<<r.naam>>}, fout)
                    ELSE ReadLines(Tail(regels),
                                   Append(cfg, [naam |-> r.naam, opties |-> <<>>]),
                                   Len(cfg) + 1, added \cup {<<r.naam>>}, fout)
               [] r.soort = "optie" ->
                    IF cur = 0 THEN abort
                    ELSE LET key == OptionXform(RStrip(r.naam))
                         IN  IF <<cfg[cur].naam, key>> \in added THEN abort
                             ELSE ReadLines(Tail(regels),
                                            [cfg EXCEPT ![cur].opties =
                                                 ParseOption(@, key, Strip(r.waarde))],
                                            cur, added \cup {<<cfg[cur].naam, key>>}, fout)
               [] r.soort = "rommel" ->
                    IF cur = 0 THEN abort
                    ELSE ReadLines(Tail(regels), cfg, cur, added, TRUE)

\* RawConfigParser._join_multiline_values
JoinValues(cfg) ==
    [i \in 1..Len(cfg) |->
        [cfg[i] EXCEPT !.opties = [j \in 1..Len(@) |-> [@[j] EXCEPT !.lijst = FALSE]]]]

\* ConfigParser.read(filename): a file that cannot be opened is skipped
\* silently; whether an aborted read still joins the values it collected
\* depends on the library version (voegtSamen)
Read(cfg, best, voegtSamen) ==
    IF ~best.leesbaar THEN [cfg |-> cfg, raised |-> FALSE]
    ELSE LET r == ReadLines(best.regels, cfg, 0, {}, FALSE)
         IN  [cfg    |-> IF r.direct /\ ~voegtSamen THEN r.cfg ELSE JoinValues(r.cfg),
              raised |-> r.raised]

(***************************************************************************)
(* class Instellingen                                                      *)
(***************************************************************************)
Algemeen       == <<"A", "l", "g", "e", "m", "e", "e", "n">>
Interface      == <<"I", "n", "t", "e", "r", "f", "a", "c", "e">>
LaatsteBestand == <<"L", "a", "a", "t", "s", "t", "e", "B", "e", "s", "t", "a", "n", "d">>
OnthoudBestand == <<"O", "n", "t", "h", "o", "u", "d", "B", "e", "s", "t", "a", "n", "d">>
ToonTooltips   == <<"T", "o", "o", "n", "T", "o", "o", "l", "t", "i", "p", "s">>

\* self.standaardInstellingen, in dict order
standaardInstellingen ==
    << [naam   |-> Algemeen,
        opties |-> << [naam |-> LaatsteBestand, waarde |-> <<>>],
                      [naam |-> OnthoudBestand, waarde |-> FalseStr] >>],
       [naam   |-> Interface,
        opties |-> << [naam |-> ToonTooltips, waarde |-> TrueStr] >>] >>

\* open(self.configBestand, 'w') and self.config.write(bestand)
slaOpBody(cfg, best) ==
    IF ~best.schrijfbaar THEN [bestand |-> best, raised |-> TRUE]
    ELSE [bestand |-> [best EXCEPT !.bestaat = TRUE, !.regels = WriteSections(cfg)],
          raised  |-> FALSE]

\* slaOp: the body inside try/except Exception
slaOp(cfg, best) == [slaOpBody(cfg, best) EXCEPT !.raised = FALSE]

RECURSIVE ZetOpties(_, _, _)
\* for optie, waarde in opties.items(): self.config.set(sectie, optie, waarde)
ZetOpties(cfg, sectie, opties) ==
    IF opties = <<>> THEN [cfg |-> cfg, raised |-> FALSE]
    ELSE LET r == CpSet(cfg, sectie, opties[1].naam, opties[1].waarde)
         IN  IF r.raised THEN r ELSE ZetOpties(r.cfg, sectie, Tail(opties))

\* variant of ZorgVoorSectie without the has_section test
ZorgVoorSectie_zonder_test(cfg, sectie) == AddSection(cfg, sectie)

\* if not self.config.has_section(sectie): self.config.add_section(sectie)
ZorgVoorSectie(cfg, sectie) ==
    IF ~HasSection(cfg, sectie) THEN AddSection(cfg, sectie)
    ELSE [cfg |-> cfg, raised |-> FALSE]

RECURSIVE MaakSecties(_, _)
\* for sectie, opties in self.standaardInstellingen.items(): ...
MaakSecties(cfg, secties) ==
    IF secties = <<>> THEN [cfg |-> cfg, raised |-> FALSE]
    ELSE LET a == ZorgVoorSectie(cfg, secties[1].naam)
         IN  IF a.raised THEN a
             ELSE LET o == ZetOpties(a.cfg, secties[1].naam, secties[1].opties)
                  IN  IF o.raised THEN o ELSE MaakSecties(o.cfg, Tail(secties))

\* variant of _maakStandaardInstellingen that never calls self.slaOp()
maakStandaardInstellingen_zonder_slaOp(cfg, best) ==
    LET m == MaakSecties(cfg, standaardInstellingen)
    IN  [cfg |-> m.cfg, bestand |-> best, raised |-> m.raised]

\* _maakStandaardInstellingen: no try/except of its own
maakStandaardInstellingen(cfg, best) ==
    LET m == MaakSecties(cfg, standaardInstellingen)
    IN  IF m.raised THEN [cfg |-> m.cfg, bestand |-> best, raised |-> TRUE]
        ELSE [cfg |-> m.cfg, bestand |-> slaOp(m.cfg, best).bestand, raised |-> FALSE]

\* variant of __init__ that fills in the defaults after a successful load too
init_altijd_standaard(best, voegtSamen) ==
    IF best.bestaat
    THEN maakStandaardInstellingen(Read(NoConfig, best, voegtSamen).cfg, best)
    ELSE maakStandaardInstellingen(NoConfig, best)

\* __init__: os.path.exists, read inside try, defaults in the handler or else
init(best, voegtSamen) ==
    IF best.bestaat
    THEN LET r == Read(NoConfig, best, voegtSamen)
         IN  IF r.raised THEN maakStandaardInstellingen(r.cfg, best)
             ELSE [cfg |-> r.cfg, bestand |-> best, raised |-> FALSE]
    ELSE maakStandaardInstellingen(NoConfig, best)

\* variant of the section search that compares the stored name as it is
bestaande_sectie_exact(cfg, sectie_lower) ==
    IF \E i \in 1..Len(cfg) : cfg[i].naam = sectie_lower
    THEN CHOOSE i \in 1..Len(cfg) : cfg[i].naam = sectie_lower
    ELSE 0

\* first section whose lowercased name equals sectie_lower; 0 when none
bestaande_sectie(cfg, sectie_lower) ==
    IF \E i \in 1..Len(cfg) : Lower(cfg[i].naam) = sectie_lower
    THEN CHOOSE i \in 1..Len(cfg) :
            /\ Lower(cfg[i].naam) = sectie_lower
            /\ \A k \in 1..(i - 1) : Lower(cfg[k].naam) # sectie_lower
    ELSE 0

\* first option of the section whose lowercased name equals optie_lower
bestaande_optie(opties, optie_lower) ==
    IF \E j \in 1..Len(opties) : Lower(opties[j]) = optie_lower
    THEN CHOOSE j \in 1..Len(opties) :
            /\ Lower(opties[j]) = optie_lower
            /\ \A k \in 1..(j - 1) : Lower(opties[k]) # optie_lower
    ELSE 0

\* the pairs (section, option) that haalOp's two loops visit and match
Treffers(cfg, sectie_lower, optie_lower) ==
    UNION { { <<i, j>> : j \in { k \in 1..Len(cfg[i].opties) :
                                   Lower(cfg[i].opties[k].naam) = optie_lower } } :
            i \in { k \in 1..Len(cfg) : Lower(cfg[k].naam) = sectie_lower } }

EersteTreffer(T) ==
    CHOOSE ij \in T : \A kl \in T : ij[1] < kl[1] \/ (ij[1] = kl[1] /\ ij[2] <= kl[2])

\* haalOp: the body of the try
haalOpBody(cfg, sectie, optie, standaard) ==
    IF sectie.t # "str" \/ optie.t # "str" THEN Raise
    ELSE LET T == Treffers(cfg, Lower(sectie.s), Lower(optie.s))
         IN  IF T = {} THEN Ok(standaard)
             ELSE LET ij == EersteTreffer(T)
                  IN  CpGet(cfg, cfg[ij[1]].naam, cfg[ij[1]].opties[ij[2]].naam)

\* haalOp
haalOp(cfg, sectie, optie, standaard) ==
    Catch(haalOpBody(cfg, sectie, optie, standaard), standaard)

\* stelIn: the body of the try; the store is left as it is where it raises
stelInBody(cfg, best, sectie, optie, waarde) ==
    IF sectie.t # "str" \/ optie.t # "str"
    THEN [cfg |-> cfg, bestand |-> best, raised |-> TRUE]
    ELSE LET i == bestaande_sectie(cfg, Lower(sectie.s))
             a == IF i = 0 THEN AddSection(cfg, sectie.s)
                  ELSE [cfg |-> cfg, raised |-> FALSE]
             naam == IF i = 0 THEN sectie.s ELSE cfg[i].naam
         IN  IF a.raised THEN [cfg |-> a.cfg, bestand |-> best, raised |-> TRUE]
             ELSE LET opties == Options(a.cfg, naam)
                      j == bestaande_optie(opties, Lower(optie.s))
                      te_gebruiken_optie ==
                          IF j # 0 /\ opties[j] # <<>> THEN opties[j] ELSE optie.s
                      s == CpSet(a.cfg, naam, te_gebruiken_optie, Str(waarde))
                  IN  IF s.raised
                      THEN [cfg |-> s.cfg, bestand |-> best, raised |-> TRUE]
                      ELSE [cfg     |-> s.cfg,
                            bestand |-> slaOp(s.cfg, best).bestand,
                            raised  |-> FALSE]

\* stelIn
stelIn(cfg, best, sectie, optie, waarde) ==
    [stelInBody(cfg, best, sectie, optie, waarde) EXCEPT !.raised = FALSE]

\* haalLaatsteBestand
haalLaatsteBestand(cfg) ==
    LET onthoud == haalOp(cfg, PStr(Algemeen), PStr(OnthoudBestand), PNone)
    IN  IF onthoud.raised THEN Raise
        ELSE IF onthoud.ret = PStr(TrueStr)
             THEN haalOp(cfg, PStr(Algemeen), PStr(LaatsteBestand), PStr(<<>>))
             ELSE Ok(PStr(<<>>))

\* stelLaatsteBestandIn
stelLaatsteBestandIn(cfg, best, bestandspad) ==
    LET rel_pad == maak_relatief_pad(bestandspad)
    IN  IF rel_pad.raised THEN [cfg |-> cfg, bestand |-> best, raised |-> TRUE]
        ELSE stelIn(cfg, best, PStr(Algemeen), PStr(LaatsteBestand), rel_pad.ret)

\* stelOnthoudBestandIn
stelOnthoudBestandIn(cfg, best, onthoud) ==
    stelIn(cfg, best, PStr(Algemeen), PStr(OnthoudBestand), PStr(Str(onthoud)))

\* haalAbsoluutPad
haalAbsoluutPad(cfg, sectie, optie, standaard) ==
    LET pad == haalOp(cfg, sectie, optie, standaard)
    IN  IF pad.raised THEN Raise
        ELSE IF Truthy(pad.ret) THEN maak_absoluut_pad(pad.ret)
        ELSE Ok(standaard)

\* os.path.exists(abs_dir) for a str or None argument: TypeError for None
OsPathExists(abs_dir, dirs) ==
    IF abs_dir.t # "str" THEN Raise ELSE Ok(PBool(abs_dir.s \in dirs))

\* os.makedirs(abs_dir); magMaken: the OS lets it succeed
OsMakedirs(dirs, abs_dir, magMaken) ==
    IF magMaken THEN [mappen |-> dirs \cup Ancestors(abs_dir), raised |-> FALSE]
    ELSE [mappen |-> dirs, raised |-> TRUE]

\* zorg_voor_directory: the body of the try
zorg_voor_directoryBody(dirs, directory_pad, magMaken) ==
    LET abs_dir == maak_absoluut_pad(directory_pad)
        e == IF abs_dir.raised THEN Raise ELSE OsPathExists(abs_dir.ret, dirs)
    IN  IF e.raised THEN [mappen |-> dirs, ret |-> PNone, raised |-> TRUE]
        ELSE IF e.ret.n = 1 THEN [mappen |-> dirs, ret |-> PBool(TRUE), raised |-> FALSE]
        ELSE LET m == OsMakedirs(dirs, abs_dir.ret.s, magMaken)
             IN  IF m.raised THEN [mappen |-> dirs, ret |-> PNone, raised |-> TRUE]
                 ELSE [mappen |-> m.mappen, ret |-> PBool(TRUE), raised |-> FALSE]

\* zorg_voor_directory
zorg_voor_directory(dirs, directory_pad, magMaken) ==
    LET r == zorg_voor_directoryBody(dirs, directory_pad, magMaken)
    IN  IF r.raised THEN [mappen |-> r.mappen, ret |-> PBool(FALSE), raised |-> FALSE]
        ELSE r

(***************************************************************************)
(* Inputs                                                                  *)
(***************************************************************************)
Extra == <<"E", "x", "t", "r", "a">>

SectieInvoer  == { PStr(Lower(Algemeen)), PStr(Extra), PStr(Lower(Extra)),
                   PStr(DEFAULTSECT), PInt(5) }
HaalSectieInvoer == { PStr(Lower(Algemeen)), PInt(5) }
HaalOptieInvoer  == { PStr(OnthoudBestand), PStr(<<"X">>) }
OptieInvoer   == { PStr(OnthoudBestand), PStr(<<"X">>), PInt(5) }
WaardeInvoer  == { PBool(TRUE), PStr(<<"%">>) }
StandaardInvoer == { PNone, PStr(<<"d">>) }
PadSectieInvoer == { PStr(Lower(Algemeen)), PStr(Extra) }
PadOptieInvoer  == { PStr(LaatsteBestand) }
BestandspadInvoer == { PStr(<<"/", "w", "/", "f">>), PInt(5) }
PadInvoer     == { PStr(<<"/", "v", "/", "g">>), PStr(<<".", ".", "/", "g">>), PInt(5) }
DirInvoer     == { PStr(<<"d", "/", "e">>), PNone }

\* a file that loads: upper-case key, a reference, a padded value
GeldigBestand ==
    << Kop(Algemeen),
       OptieRegel(<<"X">>, TrueStr),
       OptieRegel(Lower(OnthoudBestand), <<"%", "(", "x", ")", "s">>),
       OptieRegel(Lower(LaatsteBestand), <<" ", "f">>) >>
\* an empty file
LeegBestand == <<>>
\* an option before any section header: MissingSectionHeaderError at line 1
KoplozeOptie == << OptieRegel(<<"x">>, <<"1">>), Kop(Extra) >>
\* a section repeated: DuplicateSectionError at line 3
DubbeleSectie == << Kop(Algemeen), OptieRegel(<<"x">>, <<"1">>), Kop(Algemeen) >>
\* a line that is no option: ParsingError raised after the last line
RommelBestand == << Kop(Extra), OptieRegel(<<"x">>, <<"1">>), Rommel >>
\* two sections that differ in case only
TweeSecties == << Kop(Lower(Algemeen)), Kop(Algemeen), OptieRegel(<<"x">>, <<"1">>) >>

Bestanden == { GeldigBestand, LeegBestand, KoplozeOptie, DubbeleSectie,
               RommelBestand, TweeSecties }

InitBestanden ==
    { [bestaat |-> FALSE, leesbaar |-> TRUE, schrijfbaar |-> w, regels |-> <<>>] :
         w \in BOOLEAN }
    \cup { [bestaat |-> TRUE, leesbaar |-> TRUE, schrijfbaar |-> TRUE, regels |-> r] :
              r \in Bestanden }
    \cup { [bestaat |-> TRUE, leesbaar |-> l, schrijfbaar |-> FALSE,
            regels |-> GeldigBestand] : l \in BOOLEAN }

(***************************************************************************)
(* State machine                                                           *)
(***************************************************************************)
Call(op, sectie, optie, waarde, ret, raised) ==
    [op |-> op, sectie |-> sectie, optie |-> optie, waarde |-> waarde,
     ret |-> ret, raised |-> raised]

Init ==
    /\ pc = "nieuw"
    /\ config = NoConfig
    /\ bestand \in InitBestanden
    /\ bestand0 = bestand
    /\ mappen = { <<"/">>, werkdir }
    /\ last = Call("none", PNone, PNone, PNone, PNone, FALSE)
    /\ stappen = 0

\* instellingen = Instellingen()
Construct ==
    /\ pc = "nieuw"
    /\ \E voegtSamen \in BOOLEAN :
         LET r == init(bestand, voegtSamen)
         IN  /\ config' = r.cfg
             /\ bestand' = r.bestand
             /\ last' = Call("__init__", PNone, PNone, PNone, PNone, r.raised)
    /\ pc' = "klaar"
    /\ UNCHANGED <<bestand0, mappen, stappen>>

Ready ==
    /\ pc = "klaar"
    /\ stappen < MaxStappen
    /\ stappen' = stappen + 1
    /\ UNCHANGED <<pc, bestand0>>

HaalOp ==
    /\ Ready
    /\ \E sectie \in HaalSectieInvoer, optie \in HaalOptieInvoer,
          standaard \in StandaardInvoer :
         LET r == haalOp(config, sectie, optie, standaard)
         IN  last' = Call("haalOp", sectie, optie, standaard, r.ret, r.raised)
    /\ UNCHANGED <<config, bestand, mappen>>

StelIn ==
    /\ Ready
    /\ \E sectie \in SectieInvoer, optie \in OptieInvoer, waarde \in WaardeInvoer :
         LET r == stelIn(config, bestand, sectie, optie, waarde)
         IN  /\ config' = r.cfg
             /\ bestand' = r.bestand
             /\ last' = Call("stelIn", sectie, optie, waarde, PNone, r.raised)
    /\ UNCHANGED mappen

SlaOp ==
    /\ Ready
    /\ LET r == slaOp(config, bestand)
       IN  /\ bestand' = r.bestand
           /\ last' = Call("slaOp", PNone, PNone, PNone, PNone, r.raised)
    /\ UNCHANGED <<config, mappen>>

HaalLaatsteBestand ==
    /\ Ready
    /\ LET r == haalLaatsteBestand(config)
       IN  last' = Call("haalLaatsteBestand", PNone, PNone, PNone, r.ret, r.raised)
    /\ UNCHANGED <<config, bestand, mappen>>

StelLaatsteBestandIn ==
    /\ Ready
    /\ \E bestandspad \in BestandspadInvoer :
         LET r == stelLaatsteBestandIn(config, bestand, bestandspad)
         IN  /\ config' = r.cfg
             /\ bestand' = r.bestand
             /\ last' = Call("stelLaatsteBestandIn", PNone, PNone, bestandspad,
                             PNone, r.raised)
    /\ UNCHANGED mappen

StelOnthoudBestandIn ==
    /\ Ready
    /\ \E onthoud \in { PBool(TRUE), PBool(FALSE) } :
         LET r == stelOnthoudBestandIn(config, bestand, onthoud)
         IN  /\ config' = r.cfg
             /\ bestand' = r.bestand
             /\ last' = Call("stelOnthoudBestandIn", PNone, PNone, onthoud,
                             PNone, r.raised)
    /\ UNCHANGED mappen

HaalAbsoluutPad ==
    /\ Ready
    /\ \E sectie \in PadSectieInvoer, optie \in PadOptieInvoer,
          standaard \in StandaardInvoer :
         LET r == haalAbsoluutPad(config, sectie, optie, standaard)
         IN  last' = Call("haalAbsoluutPad", sectie, optie, standaard, r.ret, r.raised)
    /\ UNCHANGED <<config, bestand, mappen>>

MaakRelatiefPad ==
    /\ Ready
    /\ \E pad \in PadInvoer :
         LET r == maak_relatief_pad(pad)
         IN  last' = Call("maak_relatief_pad", PNone, PNone, pad, r.ret, r.raised)
    /\ UNCHANGED <<config, bestand, mappen>>

MaakAbsoluutPad ==
    /\ Ready
    /\ \E pad \in PadInvoer :
         LET r == maak_absoluut_pad(pad)
         IN  last' = Call("maak_absoluut_pad", PNone, PNone, pad, r.ret, r.raised)
    /\ UNCHANGED <<config, bestand, mappen>>

ZorgVoorDirectory ==
    /\ Ready
    /\ \E directory_pad \in DirInvoer, magMaken \in BOOLEAN :
         LET r == zorg_voor_directory(mappen, directory_pad, magMaken)
         IN  /\ mappen' = r.mappen
             /\ last' = Call("zorg_voor_directory", PNone, PNone, directory_pad,
                             r.ret, r.raised)
    /\ UNCHANGED <<config, bestand>>

Next ==
    \/ Construct
    \/ HaalOp
    \/ StelIn
    \/ SlaOp
    \/ HaalLaatsteBestand
    \/ StelLaatsteBestandIn
    \/ StelOnthoudBestandIn
    \/ HaalAbsoluutPad
    \/ MaakRelatiefPad
    \/ MaakAbsoluutPad
    \/ ZorgVoorDirectory

Spec == Init /\ [][Next]_vars

(***************************************************************************)
(* Vocabulary of the properties                                            *)
(***************************************************************************)
SetOps == { "stelIn", "stelLaatsteBestandIn", "stelOnthoudBestandIn" }

\* no two sections have the same lowercased name
LowerDistinct(cfg) ==
    \A i, k \in 1..Len(cfg) : i # k => Lower(cfg[i].naam) # Lower(cfg[k].naam)

\* index of the header line that governs line k; 0 when there is none
KopVan(regels, k) ==
    IF \E m \in 1..(k - 1) : regels[m].soort = "kop"
    THEN CHOOSE m \in 1..(k - 1) :
            /\ regels[m].soort = "kop"
            /\ \A q \in (m + 1)..(k - 1) : regels[q].soort # "kop"
    ELSE 0

\* the file has INI syntax the strict parser accepts
WelGevormd(regels) ==
    /\ \A k \in 1..Len(regels) : regels[k].soort # "rommel"
    /\ \A k \in 1..Len(regels) : regels[k].soort = "optie" => KopVan(regels, k) # 0
    /\ \A k, m \in 1..Len(regels) :
          (k # m /\ regels[k].soort = "kop" /\ regels[m].soort = "kop")
             => regels[k].naam # regels[m].naam
    /\ \A k, m \in 1..Len(regels) :
          (k # m /\ regels[k].soort = "optie" /\ regels[m].soort = "optie"
                 /\ KopVan(regels, k) = KopVan(regels, m))
             => Lower(RStrip(regels[k].naam)) # Lower(RStrip(regels[m].naam))

\* the header names of a file, in order
KopNamen(regels) ==
    LET koppen == SelectSeq(regels, LAMBDA r : r.soort = "kop")
    IN  [i \in 1..Len(koppen) |-> koppen[i].naam]

\* the default bootstrap content of the backing file
StandaardRegels ==
    << Kop(Algemeen), OptieRegel(LaatsteBestand, <<>>), OptieRegel(OnthoudBestand, FalseStr),
       Kop(Interface), OptieRegel(ToonTooltips, TrueStr) >>

\* option names are one name when they differ in case only
ZonderCasing(regels) ==
    [k \in 1..Len(regels) |->
        IF regels[k].soort = "optie" THEN [regels[k] EXCEPT !.naam = Lower(@)]
        ELSE regels[k]]

\* the store holds the default schema and nothing else
StoreIsStandaard(cfg) ==
    /\ Len(cfg) = Len(standaardInstellingen)
    /\ \A i \in 1..Len(cfg) :
          /\ cfg[i].naam = standaardInstellingen[i].naam
          /\ Len(cfg[i].opties) = Len(standaardInstellingen[i].opties)
          /\ \A j \in 1..Len(cfg[i].opties) :
                /\ Lower(cfg[i].opties[j].naam)
                      = Lower(standaardInstellingen[i].opties[j].naam)
                /\ cfg[i].opties[j].waarde = standaardInstellingen[i].opties[j].waarde
                /\ ~cfg[i].opties[j].lijst

\* the file exists and holds the default schema and nothing else
FileIsStandaard(best) ==
    /\ best.bestaat
    /\ ZonderCasing(best.regels) = ZonderCasing(StandaardRegels)

\* the sections, options and values of the file are those of the store
FileMatchesStore ==
    LET p == ReadLines(bestand.regels, NoConfig, 0, {}, FALSE)
    IN  /\ bestand.bestaat
        /\ ~p.raised
        /\ WriteSections(JoinValues(p.cfg)) = WriteSections(config)

\* the raw value stored for the first match of (sectie, optie); found = FALSE when none
Opgeslagen(cfg, sectie, optie) ==
    LET T == Treffers(cfg, Lower(sectie), Lower(optie))
    IN  IF T = {} THEN [found |-> FALSE, waarde |-> <<>>]
        ELSE LET ij == EersteTreffer(T)
             IN  [found |-> TRUE, waarde |-> cfg[ij[1]].opties[ij[2]].waarde]

(***************************************************************************)
(* Properties                                                              *)
(***************************************************************************)

\* C1: after set(section, option, value) returns, get(section, option)
\* returns exactly str(value), for every section name, option name and value.
C1_SetThenGet ==
    (last.op = "stelIn" /\ last.sectie.t = "str" /\ last.optie.t = "str")
       => haalOp(config, last.sectie, last.optie, PNone).ret = PStr(Str(last.waarde))

C2_Step ==
    (last'.op \in SetOps /\ LowerDistinct(config)) =>
       /\ LowerDistinct(config')
       /\ Len(config') >= Len(config)
       /\ \A i \in 1..Len(config) : config'[i].naam = config[i].naam
       /\ (last'.op = "stelIn" /\ last'.sectie.t = "str") =>
             \A i \in 1..Len(config) :
                Lower(config[i].naam) = Lower(last'.sectie.s) =>
                   /\ Sections(config') = Sections(config)
                   /\ \A k \in 1..Len(config) : k # i => config'[k] = config[k]

\* C2: a set call on a store whose section names are pairwise distinct when
\* lowercased leaves them pairwise distinct; a set whose section matches an
\* existing one ignoring case writes into that section only, adds no section,
\* and every section keeps the casing it was first written with.
C2_SectionsStayDistinct == [][C2_Step]_vars

\* a section created as "Extra" was then written through as "extra"
C2_Witness ==
    /\ last.op = "stelIn"
    /\ last.sectie = PStr(Lower(Extra))
    /\ last.optie.t = "str"
    /\ LowerDistinct(config)
    /\ \E i \in 1..Len(config) :
          /\ config[i].naam = Extra
          /\ \E j \in 1..Len(config[i].opties) :
                /\ config[i].opties[j].naam = Lower(last.optie.s)
                /\ config[i].opties[j].waarde = Str(last.waarde)

C3_Step ==
    (/\ last'.op = "stelIn" /\ last'.sectie.t = "str" /\ last'.optie.t = "str"
     /\ ~Opgeslagen(config, last'.sectie.s, last'.optie.s).found
     /\ Opgeslagen(config', last'.sectie.s, last'.optie.s).found)
    => /\ \E i \in 1..Len(config') :
             /\ Lower(config'[i].naam) = Lower(last'.sectie.s)
             /\ \E j \in 1..Len(config'[i].opties) :
                   config'[i].opties[j].naam = last'.optie.s
       /\ bestand.schrijfbaar =>
             \E k \in 1..Len(bestand'.regels) :
                /\ bestand'.regels[k].soort = "optie"
                /\ bestand'.regels[k].naam = last'.optie.s

\* C3: when set finds no option matching ignoring case, the option is stored,
\* in memory and in the file, under the exact casing passed in.
C3_OptionCasingKept == [][C3_Step]_vars

\* C4: getAbsolutePath returns the default exactly as passed whenever the
\* lookup finds nothing or finds an empty value; the default is never resolved.
C4_DefaultNotResolved ==
    last.op = "haalAbsoluutPad" =>
       LET o == Opgeslagen(config, last.sectie.s, last.optie.s)
       IN  (~o.found \/ o.waarde = <<>>) => last.ret = last.waarde

\* C5: constructing against an existing file that cannot be loaded never
\* raises and leaves store and file holding exactly the default schema, with
\* nothing taken from the bad file.
C5_BadFileGivesDefaults ==
    (/\ last.op = "__init__"
     /\ bestand0.bestaat
     /\ (~bestand0.leesbaar \/ ~WelGevormd(bestand0.regels)))
    => /\ ~last.raised
       /\ StoreIsStandaard(config)
       /\ FileIsStandaard(bestand)

\* C6: while file writes succeed, at the return of every set call the file
\* holds the sections, options and values of the in-memory store.
C6_FlushedAfterSet ==
    (last.op \in SetOps /\ bestand.schrijfbaar) => FileMatchesStore

C8_NothingEscapes ==
    /\ ~last.raised
    /\ (last.op = "haalOp" /\ (last.sectie.t # "str" \/ last.optie.t # "str"))
          => last.ret = last.waarde
    /\ (last.op \in {"maak_relatief_pad", "maak_absoluut_pad"} /\ last.waarde.t # "str")
          => last.ret = last.waarde
    /\ last.op = "zorg_voor_directory" =>
          /\ last.ret.t = "bool"
          /\ last.waarde.t # "str" => last.ret.n = 0
          /\ last.waarde.t = "str" => (last.ret.n = 1 <=> AbsPath(last.waarde.s) \in mappen)
    /\ (last.op = "__init__" /\ bestand0.bestaat /\ bestand0.leesbaar
           /\ ~WelGevormd(bestand0.regels))
          => /\ pc = "klaar"
             /\ \A i \in 1..Len(standaardInstellingen) :
                   \A j \in 1..Len(standaardInstellingen[i].opties) :
                      Opgeslagen(config, standaardInstellingen[i].naam,
                                 standaardInstellingen[i].opties[j].naam).found
    /\ (last.op \in SetOps \cup {"slaOp"} /\ ~bestand.schrijfbaar)
          => bestand = bestand0

\* a set call whose add_section raised inside the try has returned
C8_Witness ==
    /\ last.op = "stelIn"
    /\ last.sectie = PStr(DEFAULTSECT)
    /\ ~HasSection(config, DEFAULTSECT)

\* C9: getLastFile returns "" whenever the stored OnthoudBestand value is
\* absent or not exactly "True"; only when it is exactly "True" does it
\* return the stored LaatsteBestand value, unresolved.
C9_LastFileOnlyWhenTrue ==
    last.op = "haalLaatsteBestand" =>
       LET onthoud == Opgeslagen(config, Algemeen, OnthoudBestand)
           laatste == Opgeslagen(config, Algemeen, LaatsteBestand)
       IN  IF onthoud.found /\ onthoud.waarde = TrueStr
           THEN last.ret = PStr(laatste.waarde)
           ELSE last.ret = PStr(<<>>)

\* C10: when the file exists and parses, construction leaves the file as it
\* was and the store holds exactly the parsed sections and options: nothing
\* of the default schema is merged in.
C10_LoadKeepsFile ==
    (/\ last.op = "__init__"
     /\ bestand0.bestaat /\ bestand0.leesbaar
     /\ WelGevormd(bestand0.regels))
    => /\ bestand = bestand0
       /\ ~last.raised
       /\ Sections(config) = KopNamen(bestand0.regels)
       /\ \A i \in 1..Len(config) : \A j \in 1..Len(config[i].opties) :
             /\ ~config[i].opties[j].lijst
             /\ \E k \in 1..Len(bestand0.regels) :
                   /\ bestand0.regels[k].soort = "optie"
                   /\ bestand0.regels[KopVan(bestand0.regels, k)].naam = config[i].naam
                   /\ Lower(RStrip(bestand0.regels[k].naam)) = config[i].opties[j].naam
                   /\ Strip(bestand0.regels[k].waarde) = config[i].opties[j].waarde
       /\ \A k \in 1..Len(bestand0.regels) :
             bestand0.regels[k].soort = "optie" =>
                \E i \in 1..Len(config) :
                   /\ config[i].naam = bestand0.regels[KopVan(bestand0.regels, k)].naam
                   /\ \E j \in 1..Len(config[i].opties) :
                         /\ config[i].opties[j].naam = Lower(RStrip(bestand0.regels[k].naam))
                         /\ config[i].opties[j].waarde = Strip(bestand0.regels[k].waarde)

\* the constructor loaded a file that has one section and no default section
C10_Witness ==
    /\ last.op = "__init__"
    /\ bestand0.bestaat /\ bestand0.leesbaar
    /\ bestand0.regels = GeldigBestand
    /\ Len(config) = 1
    /\ Len(config[1].opties) = 3
    /\ ~HasSection(config, Interface)

====
